---- MODULE Spec2Model ----
(***************************************************************************)
(* Model of the Meteocat collectors of aleixsb/BuscadorBolets:             *)
(*   - meteocat.wind: the field extractor, the station normaliser,         *)
(*     month_range and collect_daily_wind_data (specification Spec);       *)
(*   - meteocat.wind.month_range as a generator (specification SpecMonth); *)
(*   - meteocat.aggregations.aggregate_precipitation (specification        *)
(*     SpecAgg);                                                           *)
(*   - meteocat.client.MeteocatClient: _request_json with list_stations    *)
(*     (SpecRequest) and fetch_daily_precipitation (SpecPrecip).           *)
(* Python values are tagged records [t, s, m]: t the type, s the str()     *)
(* form, m the items of a mapping.  Numbers of the aggregator are decimal  *)
(* fixed point, in thousandths.                                            *)
(***************************************************************************)
EXTENDS Integers, Sequences, FiniteSets, TLC

VARIABLES
    \* collect_daily_wind_data
    stations, variable_codes, start_date, end_date,
    si, station, year, month, vi, daily_records, all_records,
    pc, raise_cause,
    row_src, fetch_log, last_fetch, written,
    \* month_range
    mr_start, mr_end, mr_year, mr_month, mr_out, mr_pc,
    \* aggregate_precipitation
    daily_data, frequencies, normalized, results, fi, agg_pc,
    \* a function applied to one argument
    fn_arg, fn_ret, fn_pc

windVars == <<stations, variable_codes, start_date, end_date, si, station, year,
              month, vi, daily_records, all_records, pc, raise_cause, row_src,
              fetch_log, last_fetch, written>>
mrVars == <<mr_start, mr_end, mr_year, mr_month, mr_out, mr_pc>>
aggVars == <<daily_data, frequencies, normalized, results, fi, agg_pc>>
fnVars == <<fn_arg, fn_ret, fn_pc>>
vars == <<windVars, mrVars, aggVars, fnVars>>

(***************************************************************************)
(* Bounds of the model.                                                    *)
(***************************************************************************)
MaxStations == 2
MaxEntries == 2
\* month_range is explored on dates of MaxYears consecutive years.
MaxYears == 2
\* aggregate_precipitation is explored on lists of at most MaxDaily entries.
MaxDaily == 2
\* Lists of at most MaxTied entries whose sums meet rounding ties.
MaxTied == 3
\* _extract_precipitation_series is applied to payloads of at most
\* MaxPayload entries.
MaxPayload == 2
\* A command is followed through at most MaxRequests data requests.
MaxRequests == 2
\* _request_json is explored with max_retries from 0 to MaxRetries.
MaxRetries == 2
\* fetch_daily_precipitation is explored on ranges of at most MaxSpan + 1
\* days, with chunk_size from 1 to MaxChunk.
MaxSpan == 3
MaxChunk == 3

(***************************************************************************)
(* Python values.                                                          *)
(***************************************************************************)
Null == [t |-> "null", s |-> "", m |-> <<>>]
Str(x) == [t |-> "str", s |-> x, m |-> <<>>]
Num(x) == [t |-> "num", s |-> x, m |-> <<>>]
Bool(x) == [t |-> "bool", s |-> x, m |-> <<>>]
Map(f) == [t |-> "map", s |-> "{...}", m |-> f]
KeyError == [t |-> "KeyError", s |-> "", m |-> <<>>]

\* Mapping.get(key): the value, or None when the key is absent.
Get(entry, key) == IF key \in DOMAIN entry THEN entry[key] ELSE Null

\* Mutant of NotEmpty: a truth test, under which 0 and False are empty too.
NotEmptyTruthy(value) ==
    /\ ~(value.t = "null") /\ ~(value.t = "str" /\ value.s = "")
    /\ ~(value.t = "num" /\ value.s = "0") /\ ~(value.t = "bool" /\ value.s = "False")

\* value not in (None, ""): 0 and False are not empty.
NotEmpty(value) == ~(value.t = "null") /\ ~(value.t = "str" /\ value.s = "")

\* The code points of the strings the model compares or parses.
StrChars(x) ==
    CASE x = "2024-12-30" -> <<50, 48, 50, 52, 45, 49, 50, 45, 51, 48>>
      [] x = "2024-9-15" -> <<50, 48, 50, 52, 45, 57, 45, 49, 53>>
      [] x = "2024-08-01" -> <<50, 48, 50, 52, 45, 48, 56, 45, 48, 49>>
      [] x = "2024-12-29" -> <<50, 48, 50, 52, 45, 49, 50, 45, 50, 57>>
      [] x = "2025-01-01" -> <<50, 48, 50, 53, 45, 48, 49, 45, 48, 49>>
      [] x = "2021-01-03" -> <<50, 48, 50, 49, 45, 48, 49, 45, 48, 51>>
      [] x = "2024-12-30T23:59:59" ->
             <<50, 48, 50, 52, 45, 49, 50, 45, 51, 48, 84, 50, 51, 58, 53, 57, 58, 53, 57>>
      [] x = "not-a-date" -> <<110, 111, 116, 45, 97, 45, 100, 97, 116, 101>>
      [] OTHER -> <<>>

Min(a, b) == IF a <= b THEN a ELSE b

\* Python's str < str: the first differing code point decides, a proper
\* prefix is smaller.
RECURSIVE LexLessFrom(_, _, _)
LexLessFrom(a, b, i) ==
    IF i > Len(b) THEN FALSE
    ELSE IF i > Len(a) THEN TRUE
    ELSE IF a[i] # b[i] THEN a[i] < b[i]
    ELSE LexLessFrom(a, b, i + 1)

StrLess(x, y) == LexLessFrom(StrChars(x), StrChars(y), 1)

(***************************************************************************)
(* Field extractor: wind.py, _first_existing_optional and _first_existing. *)
(* A key is <<k>>, or <<parent, child>> for the dotted "parent.child".     *)
(***************************************************************************)
RECURSIVE FirstExistingFrom(_, _, _)
FirstExistingFrom(entry, keys, i) ==
    IF i > Len(keys) THEN Null
    ELSE IF Len(keys[i]) = 2
         THEN LET parent == Get(entry, keys[i][1])
              IN IF parent.t = "map" /\ NotEmpty(Get(parent.m, keys[i][2]))
                 THEN Str(Get(parent.m, keys[i][2]).s)
                 ELSE FirstExistingFrom(entry, keys, i + 1)
         ELSE LET value == Get(entry, keys[i][1])
              IN IF NotEmpty(value)
                 THEN Str(value.s)
                 ELSE FirstExistingFrom(entry, keys, i + 1)

_first_existing_optional(entry, keys) == FirstExistingFrom(entry, keys, 1)

_first_existing(entry, keys) ==
    LET value == _first_existing_optional(entry, keys)
    IN IF value = Null THEN KeyError ELSE value

RECURSIVE ExtractNestedFrom(_, _, _, _)
ExtractNestedFrom(entry, keys, key, i) ==
    IF i > Len(keys) THEN Null
    ELSE LET value == Get(entry, keys[i])
         IN IF value.t = "map"
            THEN IF NotEmpty(Get(value.m, key))
                 THEN Str(Get(value.m, key).s)
                 ELSE ExtractNestedFrom(entry, keys, key, i + 1)
            ELSE IF NotEmpty(value)
                 THEN Str(value.s)
                 ELSE ExtractNestedFrom(entry, keys, key, i + 1)

_extract_nested_optional(entry, keys, key) == ExtractNestedFrom(entry, keys, key, 1)

\* float(value) on the strings of the model: the repr of the float, or ""
\* when float() raises ValueError.
FloatRepr(x) ==
    CASE x = "41.5" -> "41.5"
      [] x = "2.1" -> "2.1"
      [] x = "0" -> "0.0"
      [] x = "650" -> "650.0"
      [] OTHER -> ""

_safe_float(value) ==
    IF value = Null \/ value = Str("") THEN Null
    ELSE IF FloatRepr(value.s) = "" THEN Null
    ELSE [t |-> "float", s |-> FloatRepr(value.s), m |-> <<>>]

(***************************************************************************)
(* Station normaliser: wind.py, _normalize_station.                        *)
(***************************************************************************)
CodeKeys == << <<"codi">>, <<"codiEstacio">>, <<"codiXEMA">>, <<"code">>, <<"id">> >>
NameKeys == << <<"nom">>, <<"nomEstacio">>, <<"descripcio">>, <<"name">> >>
\* Mutant of LatitudeKeys: the nested paths come before the flat aliases.
LatitudeKeysNestedFirst ==
    << <<"coordenades", "latitud">>, <<"coordinates", "latitude">>,
       <<"latitud">>, <<"lat">>, <<"latitude">> >>

LatitudeKeys == << <<"latitud">>, <<"lat">>, <<"latitude">>,
                   <<"coordenades", "latitud">>, <<"coordinates", "latitude">> >>
LongitudeKeys == << <<"longitud">>, <<"lon">>, <<"lng">>, <<"longitude">>,
                    <<"coordenades", "longitud">>, <<"coordinates", "longitude">> >>
AltitudeKeys == << <<"altitud">>, <<"alt">>, <<"quota">>, <<"elevation">> >>

_normalize_station(raw) ==
    LET code == _first_existing(raw, CodeKeys)
    IN IF code = KeyError THEN KeyError
       ELSE [code |-> code,
             name |-> _first_existing_optional(raw, NameKeys),
             municipality |-> _extract_nested_optional(raw, <<"municipi", "municipio">>, "nom"),
             county |-> _extract_nested_optional(raw, <<"comarca">>, "nom"),
             latitude |-> _safe_float(_first_existing_optional(raw, LatitudeKeys)),
             longitude |-> _safe_float(_first_existing_optional(raw, LongitudeKeys)),
             altitude |-> _safe_float(_first_existing_optional(raw, AltitudeKeys))]

(***************************************************************************)
(* Dates and month_range: wind.py lines 30-41.                             *)
(***************************************************************************)
Date(y, mo, d) == [year |-> y, month |-> mo, day |-> d]

\* date > date
DateGT(a, b) ==
    \/ a.year > b.year
    \/ a.year = b.year /\ a.month > b.month
    \/ a.year = b.year /\ a.month = b.month /\ a.day > b.day

\* (year, month) <= (end.year, end.month)
MonthLE(y, mo, end) == y < end.year \/ (y = end.year /\ mo <= end.month)

\* Mutant of MonthAdvance: the year is not advanced at the wrap.
MonthAdvanceKeepsYear(y, mo) == IF mo + 1 = 13 THEN <<y, 1>> ELSE <<y, mo + 1>>

\* month += 1; if month == 13: month = 1; year += 1
MonthAdvance(y, mo) == IF mo + 1 = 13 THEN <<y + 1, 1>> ELSE <<y, mo + 1>>

(***************************************************************************)
(* Inputs of collect_daily_wind_data.                                      *)
(***************************************************************************)
\* Raw station records as list_stations returns them (dicts only:
\* client.py, _extract_list).
RawStationPool ==
    { [codiXEMA |-> Str("X1"), nom |-> Str("Alpha"), municipi |-> Map([nom |-> Str("Vic")]),
       coordenades |-> Map([latitud |-> Str("41.5"), longitud |-> Str("2.1")]),
       altitud |-> Num("650")],
      [codi |-> Str(""), id |-> Null, nom |-> Str("NoCode")],
      [codi |-> Null, id |-> Str("X1"), nom |-> Str("AlphaBis"), lat |-> Str("n/a")] }

\* Entries a fetch may return: a numeric zero under the second date alias,
\* an entry whose value is empty, and an entry without date.
EntryPool ==
    { Map([data |-> Str(""), dia |-> Str("2024-12-30"), valor |-> Num("0")]),
      Map([date |-> Str("2024-9-15"), valor |-> Str("")]),
      Map([valor |-> Num("7")]) }

SeqsUpTo(S, n) == UNION {[1..k -> S] : k \in 0..n}

FetchResults == SeqsUpTo(EntryPool, MaxEntries)

\* The calls of the model: (start_date, end_date, variables).  One month
\* with the two default variables, a year boundary with a repeated variable
\* and with no variable, and start > end.
CallPool ==
    { <<Date(2024, 12, 15), Date(2024, 12, 20), <<"VV10m", "DV10m">> >>,
      <<Date(2024, 12, 15), Date(2025, 1, 10), <<"VV10m", "VV10m">> >>,
      <<Date(2024, 12, 15), Date(2025, 1, 10), <<>> >>,
      <<Date(2024, 12, 15), Date(2024, 12, 1), <<"VV10m", "DV10m">> >> }

\* list(dict.fromkeys(variables)): first occurrences, in order.
RECURSIVE DedupFrom(_, _, _)
DedupFrom(variables, i, acc) ==
    IF i > Len(variables) THEN acc
    ELSE IF \E j \in 1..Len(acc) : acc[j] = variables[i]
         THEN DedupFrom(variables, i + 1, acc)
         ELSE DedupFrom(variables, i + 1, Append(acc, variables[i]))

NoStation == Null

(***************************************************************************)
(* collect_daily_wind_data: wind.py lines 44-110.                          *)
(***************************************************************************)
\* The default of setdefault (lines 95-107).
NewRecord(st, date) ==
    [station_code |-> st.code, station_name |-> st.name,
     municipality |-> st.municipality, county |-> st.county,
     latitude |-> st.latitude, longitude |-> st.longitude,
     altitude |-> st.altitude, date |-> Str(date.s)]

\* record[column] = value
SetColumn(record, column, value) ==
    [c \in DOMAIN record \cup {column} |-> IF c = column THEN value ELSE record[c]]

\* Mutant of MergeEntry: the row of the date is replaced, not merged.
MergeEntryReplacesRow(records, st, variable_code, date, value) ==
    [k \in DOMAIN records \cup {date.s} |->
        IF k = date.s THEN SetColumn(NewRecord(st, date), variable_code, value)
        ELSE records[k]]

\* record = daily_records.setdefault(str(date), {...}); record[variable_code] = value
MergeEntry(records, st, variable_code, date, value) ==
    LET key == date.s
        record == IF key \in DOMAIN records THEN records[key] ELSE NewRecord(st, date)
    IN [k \in DOMAIN records \cup {key} |->
           IF k = key THEN SetColumn(record, variable_code, value) ELSE records[k]]

\* The loop over the entries of one fetch (lines 88-108): the records after
\* it, and whether _first_existing raised KeyError on an entry without date.
RECURSIVE ProcessEntries(_, _, _, _, _)
ProcessEntries(records, st, variable_code, entries, i) ==
    IF i > Len(entries) THEN [raised |-> FALSE, records |-> records]
    ELSE IF entries[i].t # "map"
         THEN ProcessEntries(records, st, variable_code, entries, i + 1)
    ELSE LET date == _first_existing(entries[i].m, << <<"data">>, <<"dia">>, <<"date">> >>)
         IN IF date = KeyError THEN [raised |-> TRUE, records |-> records]
            ELSE IF date.s = ""
                 THEN ProcessEntries(records, st, variable_code, entries, i + 1)
            ELSE ProcessEntries(
                     MergeEntry(records, st, variable_code, date,
                                _first_existing_optional(entries[i].m, << <<"valor">>, <<"value">> >>)),
                     st, variable_code, entries, i + 1)

\* Mutant of SortedByDate: descending.
RECURSIVE SortedByDateDescending(_)
SortedByDateDescending(rows) ==
    IF rows = {} THEN <<>>
    ELSE LET first == CHOOSE r \in rows :
                          \A q \in rows : ~StrLess(r["date"].s, q["date"].s)
         IN <<first>> \o SortedByDateDescending(rows \ {first})

\* sorted(daily_records.values(), key=lambda item: item["date"])
RECURSIVE SortedByDate(_)
SortedByDate(rows) ==
    IF rows = {} THEN <<>>
    ELSE LET first == CHOOSE r \in rows :
                          \A q \in rows : ~StrLess(q["date"].s, r["date"].s)
         IN <<first>> \o SortedByDate(rows \ {first})

Values(records) == {records[k] : k \in DOMAIN records}

\* The position after one fetch: the next variable, or the generator's next
\* month, or the end of the station's loops.
AfterFetch ==
    IF vi < Len(variable_codes)
    THEN /\ vi' = vi + 1
         /\ UNCHANGED <<year, month>>
         /\ pc' = "fetch"
    ELSE LET next == MonthAdvance(year, month)
         IN /\ year' = next[1]
            /\ month' = next[2]
            /\ vi' = 1
            /\ pc' = IF MonthLE(next[1], next[2], end_date) THEN "fetch" ELSE "emit"

Call == [si |-> si, code |-> station.code.s, year |-> year, month |-> month,
         variable |-> variable_codes[vi]]

\* History of the assignments of line 108: the value last assigned to each
\* (station index, date, column).
EntryDate(e) == _first_existing(e.m, << <<"data">>, <<"dia">>, <<"date">> >>)
RECURSIVE WritesFrom(_, _, _)
WritesFrom(log, entries, i) ==
    IF i > Len(entries) THEN log
    ELSE IF entries[i].t # "map" \/ EntryDate(entries[i]) = KeyError
         THEN WritesFrom(log, entries, i + 1)
    ELSE LET key == <<si, EntryDate(entries[i]).s, variable_codes[vi]>>
             value == _first_existing_optional(entries[i].m, << <<"valor">>, <<"value">> >>)
         IN WritesFrom([k \in DOMAIN log \cup {key} |-> IF k = key THEN value ELSE log[k]],
                       entries, i + 1)
Writes(entries) == WritesFrom(written, entries, 1)

\* An exception leaves collect_daily_wind_data: its locals are gone, its
\* caller gets no list.
Raise(cause) ==
    /\ pc' = "raised"
    /\ raise_cause' = cause
    /\ si' = 0
    /\ station' = NoStation
    /\ year' = 0
    /\ month' = 0
    /\ vi' = 0
    /\ daily_records' = <<>>
    /\ all_records' = <<>>
    /\ row_src' = <<>>
    /\ written' = <<>>

WindInit ==
    /\ stations \in SeqsUpTo(RawStationPool, MaxStations)
    /\ \E call \in CallPool :
           /\ start_date = call[1]
           /\ end_date = call[2]
           /\ variable_codes = DedupFrom(call[3], 1, <<>>)
    /\ si = 1
    /\ station = NoStation
    /\ year = 0
    /\ month = 0
    /\ vi = 1
    /\ daily_records = <<>>
    /\ all_records = <<>>
    /\ pc = "station"
    /\ raise_cause = "none"
    /\ row_src = <<>>
    /\ fetch_log = <<>>
    /\ last_fetch = "none"
    /\ written = <<>>

\* Mutant of SkipStation: the KeyError of _normalize_station is not caught.
SkipStationRaises ==
    /\ UNCHANGED <<mrVars, aggVars, fnVars>>
    /\ pc = "station"
    /\ si <= Len(stations)
    /\ _normalize_station(stations[si]) = KeyError
    /\ Raise("station_without_code")
    /\ UNCHANGED <<stations, variable_codes, start_date, end_date, fetch_log, last_fetch>>

\* Lines 61-66: a station whose code cannot be resolved is skipped.
SkipStation ==
    /\ UNCHANGED <<mrVars, aggVars, fnVars>>
    /\ pc = "station"
    /\ si <= Len(stations)
    /\ _normalize_station(stations[si]) = KeyError
    /\ si' = si + 1
    /\ UNCHANGED <<stations, variable_codes, start_date, end_date, station, year,
                   month, vi, daily_records, all_records, pc, raise_cause,
                   row_src, fetch_log, last_fetch, written>>

\* Lines 61-69: the station is normalised, its records start empty and the
\* month generator is started (month_range raises when start > end).
StartStation ==
    /\ UNCHANGED <<mrVars, aggVars, fnVars>>
    /\ pc = "station"
    /\ si <= Len(stations)
    /\ _normalize_station(stations[si]) # KeyError
    /\ IF DateGT(start_date, end_date)
       THEN Raise("month_range")
       ELSE /\ station' = _normalize_station(stations[si])
            /\ daily_records' = <<>>
            /\ vi' = 1
            /\ year' = start_date.year
            /\ month' = start_date.month
            /\ pc' = IF MonthLE(start_date.year, start_date.month, end_date)
                     THEN "fetch" ELSE "emit"
            /\ UNCHANGED <<si, raise_cause, all_records, row_src, written>>
    /\ UNCHANGED <<stations, variable_codes, start_date, end_date, fetch_log, last_fetch>>

\* Lines 69-70 with no variable: the month is consumed without a fetch.
SkipMonth ==
    /\ UNCHANGED <<mrVars, aggVars, fnVars>>
    /\ pc = "fetch"
    /\ Len(variable_codes) = 0
    /\ LET next == MonthAdvance(year, month)
       IN /\ year' = next[1]
          /\ month' = next[2]
          /\ pc' = IF MonthLE(next[1], next[2], end_date) THEN "fetch" ELSE "emit"
    /\ UNCHANGED <<stations, variable_codes, start_date, end_date, si, station, vi,
                   daily_records, all_records, raise_cause, row_src, fetch_log,
                   last_fetch, written>>

\* Mutant of FetchFail: the failure ends the station's loops.
FetchFailEndsStation ==
    /\ UNCHANGED <<mrVars, aggVars, fnVars>>
    /\ pc = "fetch"
    /\ vi <= Len(variable_codes)
    /\ fetch_log' = Append(fetch_log, Call)
    /\ last_fetch' = "failed"
    /\ pc' = "emit"
    /\ UNCHANGED <<stations, variable_codes, start_date, end_date, si, station,
                   year, month, vi, daily_records, all_records, raise_cause,
                   row_src, written>>

\* Lines 71-87: the fetch raises; the combination is logged and skipped.
FetchFail ==
    /\ UNCHANGED <<mrVars, aggVars, fnVars>>
    /\ pc = "fetch"
    /\ vi <= Len(variable_codes)
    /\ fetch_log' = Append(fetch_log, Call)
    /\ last_fetch' = "failed"
    /\ AfterFetch
    /\ UNCHANGED <<stations, variable_codes, start_date, end_date, si, station,
                   daily_records, all_records, raise_cause, row_src, written>>

\* Lines 71-77 and 88-108: the fetch returns entries, which are merged.
FetchOk ==
    /\ UNCHANGED <<mrVars, aggVars, fnVars>>
    /\ pc = "fetch"
    /\ vi <= Len(variable_codes)
    /\ \E entries \in FetchResults :
           LET out == ProcessEntries(daily_records, station, variable_codes[vi], entries, 1)
           IN /\ fetch_log' = Append(fetch_log, Call)
              /\ last_fetch' = "ok"
              /\ IF out.raised
                 THEN Raise("entry_without_date")
                 ELSE /\ daily_records' = out.records
                      /\ AfterFetch
                      /\ written' = Writes(entries)
                      /\ UNCHANGED <<si, station, raise_cause, all_records, row_src>>
    /\ UNCHANGED <<stations, variable_codes, start_date, end_date>>

\* Line 109: the station's records are appended, sorted by date.
EmitStation ==
    /\ UNCHANGED <<mrVars, aggVars, fnVars>>
    /\ pc = "emit"
    /\ LET block == SortedByDate(Values(daily_records))
       IN /\ all_records' = all_records \o block
          /\ row_src' = row_src \o [k \in 1..Len(block) |-> si]
    /\ si' = si + 1
    /\ pc' = "station"
    /\ UNCHANGED <<stations, variable_codes, start_date, end_date, station, year,
                   month, vi, daily_records, raise_cause, fetch_log, last_fetch,
                   written>>

\* Line 110.
Return ==
    /\ UNCHANGED <<mrVars, aggVars, fnVars>>
    /\ pc = "station"
    /\ si > Len(stations)
    /\ pc' = "done"
    /\ UNCHANGED <<stations, variable_codes, start_date, end_date, si, station, year,
                   month, vi, daily_records, all_records, raise_cause, row_src,
                   fetch_log, last_fetch, written>>

MonthIdle ==
    /\ mr_start = Date(0, 0, 0) /\ mr_end = Date(0, 0, 0)
    /\ mr_year = 0 /\ mr_month = 0 /\ mr_out = <<>> /\ mr_pc = "idle"

AggIdle ==
    /\ daily_data = <<>> /\ frequencies = <<>> /\ normalized = <<>>
    /\ results = <<>> /\ fi = 0 /\ agg_pc = "idle"

FnIdle == fn_arg = Null /\ fn_ret = Null /\ fn_pc = "idle"

Init == WindInit /\ MonthIdle /\ AggIdle /\ FnIdle

Next ==
    \/ SkipStation
    \/ StartStation
    \/ SkipMonth
    \/ FetchFail
    \/ FetchOk
    \/ EmitStation
    \/ Return

Spec == Init /\ [][Next]_vars

(***************************************************************************)
(* The collector with the client it creates (wind.py 55): MeteocatClient   *)
(* of client.py.                                                           *)
(***************************************************************************)
\* The methods class MeteocatClient defines.
MeteocatClientMethods ==
    {"__init__", "list_stations", "fetch_daily_precipitation", "_request_json",
     "_extract_list", "_extract_precipitation_series"}

\* Lines 71-87 with client a MeteocatClient: looking up a method the class
\* does not define raises AttributeError, which the except of line 78 takes
\* as a failed fetch.
FetchPackaged ==
    IF "fetch_daily_variable_statistics" \in MeteocatClientMethods
    THEN FetchOk \/ FetchFail
    ELSE FetchFail

NextPackaged ==
    \/ SkipStation
    \/ StartStation
    \/ SkipMonth
    \/ FetchPackaged
    \/ EmitStation
    \/ Return

SpecPackaged == Init /\ [][NextPackaged]_vars

(***************************************************************************)
(* month_range as a generator: wind.py lines 30-41 (and the same function  *)
(* in scripts/fetch_wind_data.py, lines 169-180).                          *)
(***************************************************************************)
WindIdle ==
    /\ stations = <<>> /\ variable_codes = <<>>
    /\ start_date = Date(0, 0, 0) /\ end_date = Date(0, 0, 0)
    /\ si = 0 /\ station = NoStation /\ year = 0 /\ month = 0 /\ vi = 0
    /\ daily_records = <<>> /\ all_records = <<>> /\ pc = "idle"
    /\ raise_cause = "none" /\ row_src = <<>> /\ fetch_log = <<>>
    /\ last_fetch = "none" /\ written = <<>>

\* The dates month_range is called with: the first and a late day of every
\* month of the years explored.
RangeDates ==
    {Date(y, mo, d) : y \in 2024..(2024 + MaxYears - 1), mo \in 1..12, d \in {1, 28}}

MonthInit ==
    /\ mr_start \in RangeDates
    /\ mr_end \in RangeDates
    /\ mr_year = 0
    /\ mr_month = 0
    /\ mr_out = <<>>
    /\ mr_pc = "call"

\* Lines 33-35: the first next() runs the body up to the loop.
MonthRangeStart ==
    /\ UNCHANGED <<windVars, aggVars, fnVars>>
    /\ mr_pc = "call"
    /\ IF DateGT(mr_start, mr_end)
       THEN /\ mr_pc' = "raised"
            /\ UNCHANGED <<mr_year, mr_month>>
       ELSE /\ mr_year' = mr_start.year
            /\ mr_month' = mr_start.month
            /\ mr_pc' = "loop"
    /\ UNCHANGED <<mr_start, mr_end, mr_out>>

\* Lines 36-41: one pair is yielded and the month advances.
MonthRangeYield ==
    /\ UNCHANGED <<windVars, aggVars, fnVars>>
    /\ mr_pc = "loop"
    /\ MonthLE(mr_year, mr_month, mr_end)
    /\ mr_out' = Append(mr_out, <<mr_year, mr_month>>)
    /\ mr_year' = MonthAdvance(mr_year, mr_month)[1]
    /\ mr_month' = MonthAdvance(mr_year, mr_month)[2]
    /\ UNCHANGED <<mr_start, mr_end, mr_pc>>

\* Line 36: the loop condition fails and the generator is exhausted.
MonthRangeStop ==
    /\ UNCHANGED <<windVars, aggVars, fnVars>>
    /\ mr_pc = "loop"
    /\ ~MonthLE(mr_year, mr_month, mr_end)
    /\ mr_pc' = "done"
    /\ UNCHANGED <<mr_start, mr_end, mr_year, mr_month, mr_out>>

InitMonth == WindIdle /\ MonthInit /\ AggIdle /\ FnIdle

NextMonth ==
    \/ MonthRangeStart
    \/ MonthRangeYield
    \/ MonthRangeStop

SpecMonth == InitMonth /\ [][NextMonth]_vars

(***************************************************************************)
(* aggregate_precipitation: aggregations.py.  A float is its value in      *)
(* thousandths; the values of the model are even thousandths, so that no   *)
(* sum lies halfway between two hundredths.                                *)
(***************************************************************************)
\* float(x) of the numbers and numeric strings of the model, in
\* thousandths; -1 when float() raises ValueError.
Thousandths(x) ==
    CASE x = "0.004" -> 4
      [] x = "0.12" -> 120
      [] x = "2.5" -> 2500
      [] x = "1.515" -> 1515
      [] x = "0.265" -> 265
      [] x = "0.815" -> 815
      [] x = "1" -> 1000
      [] x = "0" -> 0
      [] OTHER -> -1

\* A datetime.date object.
DateObject(x, d) == [t |-> "date", s |-> x, m |-> d]

IsLeap(y) == y % 4 = 0 /\ (y % 100 # 0 \/ y % 400 = 0)

DaysInMonth(y, mo) ==
    IF mo = 2 THEN (IF IsLeap(y) THEN 29 ELSE 28)
    ELSE IF mo \in {4, 6, 9, 11} THEN 30 ELSE 31

IsDigit(c) == c \in 48..57

\* The outcome of a date conversion that raises (no date has year 0).
NoDate == Date(0, 0, 0)

\* datetime.date.fromisoformat on at most ten characters: the date of a
\* YYYY-MM-DD string, NoDate where it raises ValueError.
FromIsoFormat(c) ==
    IF /\ Len(c) = 10
       /\ c[5] = 45 /\ c[8] = 45
       /\ \A i \in {1, 2, 3, 4, 6, 7, 9, 10} : IsDigit(c[i])
    THEN LET y == (c[1] - 48) * 1000 + (c[2] - 48) * 100 + (c[3] - 48) * 10 + (c[4] - 48)
             mo == (c[6] - 48) * 10 + (c[7] - 48)
             d == (c[9] - 48) * 10 + (c[10] - 48)
         IN IF y >= 1 /\ mo \in 1..12 /\ d >= 1 /\ d <= DaysInMonth(y, mo)
            THEN Date(y, mo, d) ELSE NoDate
    ELSE NoDate

\* _normalize_date (lines 13-18) inside the try of lines 79-82: the date, or
\* NoDate when TypeError or ValueError is caught.
_normalize_date(value) ==
    IF value.t \in {"date", "datetime"} THEN value.m
    ELSE IF value.t = "str"
         THEN FromIsoFormat(SubSeq(StrChars(value.s), 1, Min(10, Len(StrChars(value.s)))))
         ELSE NoDate

\* not raw_date
Falsy(value) ==
    \/ value.t = "null"
    \/ value.t = "str" /\ value.s = ""
    \/ value.t = "num" /\ Thousandths(value.s) = 0
    \/ value.t = "bool" /\ value.s = "False"

\* Mutant of NormalizeEntry: a value float() rejects is taken as 0.0.
NormalizeEntryKeepsNonNumeric(entry) ==
    IF entry.t # "map" THEN <<>>
    ELSE LET raw_date == Get(entry.m, "date")
             raw_value == Get(entry.m, "value")
         IN IF Falsy(raw_date) THEN <<>>
            ELSE IF _normalize_date(raw_date) = NoDate THEN <<>>
            ELSE IF ~NotEmpty(raw_value) THEN <<>>
            ELSE << [date |-> _normalize_date(raw_date),
                     value |-> IF Thousandths(raw_value.s) < 0 THEN 0
                               ELSE Thousandths(raw_value.s)] >>

\* Lines 74-90 for one entry: the (date, value) pair appended, if any.
NormalizeEntry(entry) ==
    IF entry.t # "map" THEN <<>>
    ELSE LET raw_date == Get(entry.m, "date")
             raw_value == Get(entry.m, "value")
         IN IF Falsy(raw_date) THEN <<>>
            ELSE IF _normalize_date(raw_date) = NoDate THEN <<>>
            ELSE IF ~NotEmpty(raw_value) THEN <<>>
            ELSE IF ~(raw_value.t \in {"num", "str"}) \/ Thousandths(raw_value.s) < 0
                 THEN <<>>
            ELSE << [date |-> _normalize_date(raw_date),
                     value |-> Thousandths(raw_value.s)] >>

RECURSIVE NormalizeFrom(_, _)
NormalizeFrom(data, i) ==
    IF i > Len(data) THEN <<>>
    ELSE NormalizeEntry(data[i]) \o NormalizeFrom(data, i + 1)

DateLess(a, b) == DateGT(b, a)

\* normalized.sort(key=lambda item: item[0]): stable.
RECURSIVE InsertByDate(_, _)
InsertByDate(sorted, item) ==
    IF sorted = <<>> THEN <<item>>
    ELSE IF DateLess(item.date, sorted[Len(sorted)].date)
         THEN Append(InsertByDate(SubSeq(sorted, 1, Len(sorted) - 1), item),
                     sorted[Len(sorted)])
         ELSE Append(sorted, item)

RECURSIVE SortNormalized(_, _)
SortNormalized(items, i) ==
    IF i = 0 THEN <<>>
    ELSE InsertByDate(SortNormalized(items, i - 1), items[i])

\* datetime.date.toordinal and isocalendar, as CPython computes them.
DaysBeforeYear(y) == (y - 1) * 365 + ((y - 1) \div 4) - ((y - 1) \div 100) + ((y - 1) \div 400)
RECURSIVE DaysBeforeMonth(_, _)
DaysBeforeMonth(y, mo) ==
    IF mo = 1 THEN 0 ELSE DaysBeforeMonth(y, mo - 1) + DaysInMonth(y, mo - 1)
ToOrdinal(d) == DaysBeforeYear(d.year) + DaysBeforeMonth(d.year, d.month) + d.day

IsoWeek1Monday(y) ==
    LET firstday == ToOrdinal(Date(y, 1, 1))
        firstweekday == (firstday + 6) % 7
    IN IF firstweekday > 3 THEN firstday - firstweekday + 7
       ELSE firstday - firstweekday

IsoCalendar(d) ==
    LET today == ToOrdinal(d)
        week == (today - IsoWeek1Monday(d.year)) \div 7
    IN IF week < 0
       THEN <<d.year - 1, ((today - IsoWeek1Monday(d.year - 1)) \div 7) + 1>>
       ELSE IF week >= 52 /\ today >= IsoWeek1Monday(d.year + 1)
            THEN <<d.year + 1, 1>>
            ELSE <<d.year, week + 1>>

Supported == {"weekly", "monthly", "yearly"}

\* Mutant of _period_key: the yearly key is the ISO year.
PeriodKeyYearlyIsoYear(d, frequency) ==
    IF frequency = "weekly" THEN IsoCalendar(d)
    ELSE IF frequency = "monthly" THEN <<d.year, d.month>>
    ELSE <<IsoCalendar(d)[1], 0>>

\* Mutant of _period_key: the monthly key takes the ISO year.
PeriodKeyMonthlyIsoYear(d, frequency) ==
    IF frequency = "weekly" THEN IsoCalendar(d)
    ELSE IF frequency = "monthly" THEN <<IsoCalendar(d)[1], d.month>>
    ELSE <<d.year, 0>>

\* Mutant of _period_key: the weekly key takes the Gregorian year.
PeriodKeyWeeklyGregorianYear(d, frequency) ==
    IF frequency = "weekly" THEN <<d.year, IsoCalendar(d)[2]>>
    ELSE IF frequency = "monthly" THEN <<d.year, d.month>>
    ELSE <<d.year, 0>>

\* Lines 21-28, for a supported frequency; None is 0.
_period_key(d, frequency) ==
    IF frequency = "weekly" THEN IsoCalendar(d)
    ELSE IF frequency = "monthly" THEN <<d.year, d.month>>
    ELSE <<d.year, 0>>

\* str(n) and the 02d format, as code points.
RECURSIVE IntChars(_)
IntChars(n) == IF n < 10 THEN <<48 + n>> ELSE Append(IntChars(n \div 10), 48 + (n % 10))
TwoDigits(n) == IF n < 10 THEN <<48, 48 + n>> ELSE IntChars(n)

\* Lines 32-39, for a supported frequency.
_period_label(key, frequency) ==
    IF frequency = "weekly" /\ key[2] # 0 THEN IntChars(key[1]) \o <<45, 87>> \o TwoDigits(key[2])
    ELSE IF frequency = "monthly" /\ key[2] # 0 THEN IntChars(key[1]) \o <<45>> \o TwoDigits(key[2])
    ELSE IntChars(key[1])

\* round(total, 2) of a total in thousandths that is not halfway.
Round2(total) ==
    LET r == total % 10
    IN IF r < 5 THEN total - r
       ELSE IF r > 5 THEN total - r + 10
       ELSE IF ((total - r) \div 10) % 2 = 0 THEN total - r ELSE total - r + 10

\* totals[key] += value over normalized (lines 96-99).
RECURSIVE TotalOf(_, _, _, _)
TotalOf(items, key, frequency, i) ==
    IF i > Len(items) THEN 0
    ELSE (IF _period_key(items[i].date, frequency) = key THEN items[i].value ELSE 0)
         + TotalOf(items, key, frequency, i + 1)

\* Mutant of KeyLess: the order of the keys is reversed.
KeyGreater(a, b) == a[1] > b[1] \/ (a[1] = b[1] /\ a[2] > b[2])

KeyLess(a, b) == a[1] < b[1] \/ (a[1] = b[1] /\ a[2] < b[2])

\* The values added to totals[key], in the order of normalized.
RECURSIVE AddendsOf(_, _, _, _)
AddendsOf(items, key, frequency, i) ==
    IF i > Len(items) THEN <<>>
    ELSE (IF _period_key(items[i].date, frequency) = key THEN <<items[i].value>> ELSE <<>>)
         \o AddendsOf(items, key, frequency, i + 1)

\* The binary float that 0.0 + v1 + v2 + ... yields is not the decimal sum.
\* Where the decimal sum is halfway between two hundredths the side on which
\* the float lies decides round(total, 2); it depends on the order of the
\* addends.  The two tables hold the side for the sequences of the values
\* 1.515, 0.265 and 0.815, as IEEE 754 double arithmetic gives it.
AboveTie ==
    { <<265>>, <<1515, 815, 265>>, <<1515, 815, 815>>, <<265, 265, 265>>,
      <<265, 815, 265>>, <<265, 815, 815>>, <<815, 1515, 265>>, <<815, 1515,
      815>>, <<815, 265, 265>>, <<815, 265, 815>>, <<815, 815, 265>> }

BelowTie ==
    { <<1515>>, <<815>>, <<1515, 1515, 1515>>, <<1515, 1515, 265>>, <<1515,
      1515, 815>>, <<1515, 265, 1515>>, <<1515, 265, 265>>, <<1515, 265,
      815>>, <<1515, 815, 1515>>, <<265, 1515, 1515>>, <<265, 1515, 265>>,
      <<265, 1515, 815>>, <<265, 265, 1515>>, <<265, 265, 815>>, <<265, 815,
      1515>>, <<815, 1515, 1515>>, <<815, 265, 1515>>, <<815, 815, 1515>>,
      <<815, 815, 815>> }

\* round(total, 2) of the float total of a bucket (line 103).
RoundTotal(total, addends) ==
    IF total % 10 = 5 /\ addends \in AboveTie THEN total + 5
    ELSE IF total % 10 = 5 /\ addends \in BelowTie THEN total - 5
    ELSE Round2(total)

\* sorted(totals.items()) with the entry built for each (lines 100-106).
RECURSIVE AggregatedFrom(_, _, _)
AggregatedFrom(items, keys, frequency) ==
    IF keys = {} THEN <<>>
    ELSE LET key == CHOOSE k \in keys : \A q \in keys : ~KeyLess(q, k)
         IN << [period |-> _period_label(key, frequency),
                value |-> RoundTotal(TotalOf(items, key, frequency, 1),
                                     AddendsOf(items, key, frequency, 1))] >>
            \o AggregatedFrom(items, keys \ {key}, frequency)

Aggregated(items, frequency) ==
    AggregatedFrom(items,
                   {_period_key(items[i].date, frequency) : i \in 1..Len(items)},
                   frequency)

\* The raw dates and values of the entries, each with what it denotes.
DatePool ==
    { [raw |-> Str("2024-08-01"), date |-> Date(2024, 8, 1)],
      [raw |-> Str("2024-12-29"), date |-> Date(2024, 12, 29)],
      [raw |-> Str("2024-12-30T23:59:59"), date |-> Date(2024, 12, 30)],
      [raw |-> DateObject("2025-01-01", Date(2025, 1, 1)), date |-> Date(2025, 1, 1)],
      [raw |-> Str("2021-01-03"), date |-> Date(2021, 1, 3)] }

ValuePool ==
    { [raw |-> Num("0.004"), value |-> 4],
      [raw |-> Num("0.12"), value |-> 120],
      [raw |-> Str("2.5"), value |-> 2500] }

ValidEntries ==
    {[raw |-> Map([date |-> d.raw, value |-> v.raw]), date |-> d.date, value |-> v.value] :
        d \in DatePool, v \in ValuePool}

MalformedEntries ==
    { Null,
      Str("2024-08-01"),
      Map([value |-> Num("1")]),
      Map([date |-> Str(""), value |-> Num("1")]),
      Map([date |-> Str("not-a-date"), value |-> Num("1")]),
      Map([date |-> Str("2024-08-01")]),
      Map([date |-> Str("2024-08-01"), value |-> Str("")]),
      Map([date |-> Str("2024-08-01"), value |-> Str("n/a")]) }

DailyEntryPool == {e.raw : e \in ValidEntries} \cup MalformedEntries

FrequencyChoices ==
    { <<"weekly", "monthly", "yearly">>, <<"yearly", "monthly">>, <<"monthly", "hourly">> }

AggInit ==
    /\ daily_data \in SeqsUpTo(DailyEntryPool, MaxDaily)
    /\ frequencies \in FrequencyChoices
    /\ normalized = <<>>
    /\ results = <<>>
    /\ fi = 0
    /\ agg_pc = "call"

\* Lines 72-94: the entries are normalised and sorted by date.
AggNormalize ==
    /\ UNCHANGED <<windVars, mrVars, fnVars>>
    /\ agg_pc = "call"
    /\ normalized' = LET items == NormalizeFrom(daily_data, 1)
                     IN SortNormalized(items, Len(items))
    /\ results' = <<>>
    /\ fi' = 1
    /\ agg_pc' = "frequencies"
    /\ UNCHANGED <<daily_data, frequencies>>

\* Lines 95-107 for one frequency: _period_key raises ValueError on the
\* first normalised entry when the frequency is not supported.
AggFrequency ==
    /\ UNCHANGED <<windVars, mrVars, fnVars>>
    /\ agg_pc = "frequencies"
    /\ fi <= Len(frequencies)
    /\ IF frequencies[fi] \notin Supported /\ normalized # <<>>
       THEN /\ agg_pc' = "raised"
            /\ results' = <<>>
            /\ UNCHANGED fi
       ELSE /\ results' = [f \in DOMAIN results \cup {frequencies[fi]} |->
                              IF f = frequencies[fi]
                              THEN (IF normalized = <<>> THEN <<>>
                                    ELSE Aggregated(normalized, frequencies[fi]))
                              ELSE results[f]]
            /\ fi' = fi + 1
            /\ UNCHANGED agg_pc
    /\ UNCHANGED <<daily_data, frequencies, normalized>>

\* Line 108.
AggReturn ==
    /\ UNCHANGED <<windVars, mrVars, fnVars>>
    /\ agg_pc = "frequencies"
    /\ fi > Len(frequencies)
    /\ agg_pc' = "done"
    /\ UNCHANGED <<daily_data, frequencies, normalized, results, fi>>

InitAgg == WindIdle /\ MonthIdle /\ AggInit /\ FnIdle

NextAgg ==
    \/ AggNormalize
    \/ AggFrequency
    \/ AggReturn

SpecAgg == InitAgg /\ [][NextAgg]_vars

\* aggregate_precipitation on entries whose values end in 5 thousandths.
TiedPool ==
    {Map([date |-> Str(d), value |-> Num(v)]) :
        d \in {"2024-08-01", "2024-12-29"}, v \in {"1.515", "0.265", "0.815"}}

AggTiedInit ==
    /\ daily_data \in SeqsUpTo(TiedPool, MaxTied)
    /\ frequencies = <<"weekly", "monthly", "yearly">>
    /\ normalized = <<>>
    /\ results = <<>>
    /\ fi = 0
    /\ agg_pc = "call"

InitAggTied == WindIdle /\ MonthIdle /\ AggTiedInit /\ FnIdle

SpecAggTied == InitAggTied /\ [][NextAgg]_vars

(***************************************************************************)
(* _normalize_station applied to one raw station record: wind.py 113-150.  *)
(***************************************************************************)
\* A key the record does not hold.
Absent == [t |-> "absent", s |-> "", m |-> <<>>]

\* The mapping that holds the keys of a choice which are not Absent.
Holding(choice) == [k \in {q \in DOMAIN choice : choice[q] # Absent} |-> choice[k]]

RawStationChoices ==
    [ codi : {Absent, Null, Str(""), Str("C1")},
      codiXEMA : {Absent, Str("X1")},
      id : {Absent, Num("0")},
      latitud : {Absent, Str(""), Str("2.1")},
      lat : {Absent, Str("n/a"), Str("0")},
      coordenades : {Absent, Str("41.5"),
                     Map([latitud |-> Str("41.5"), longitud |-> Str("2.1")])} ]

StationInit ==
    /\ fn_arg \in {Holding(choice) : choice \in RawStationChoices}
    /\ fn_ret = Null
    /\ fn_pc = "call"

NormalizeStation ==
    /\ UNCHANGED <<windVars, mrVars, aggVars>>
    /\ fn_pc = "call"
    /\ fn_ret' = _normalize_station(fn_arg)
    /\ fn_pc' = IF _normalize_station(fn_arg) = KeyError THEN "raised" ELSE "done"
    /\ UNCHANGED fn_arg

InitStation == WindIdle /\ MonthIdle /\ AggIdle /\ StationInit

NextStation == NormalizeStation

SpecStation == InitStation /\ [][NextStation]_vars

(***************************************************************************)
(* The field extractor applied to one entry and one list of candidate      *)
(* keys: wind.py 169-187.                                                  *)
(***************************************************************************)
EntryChoices ==
    [ a : {Absent, Null, Str(""), Num("0"), Bool("False"), Str("v")},
      b : {Absent, Str("w")},
      p : {Absent, Str("flat"), Map(<<>>), Map([c |-> Str("")]), Map([c |-> Num("0")])} ]

KeyLists ==
    { <<>>, << <<"a">>, <<"b">> >>, << <<"b">>, <<"a">> >>,
      << <<"p", "c">>, <<"a">> >>, << <<"a">>, <<"p", "c">>, <<"b">> >> }

ExtractInit ==
    /\ fn_arg \in [entry : {Holding(choice) : choice \in EntryChoices}, keys : KeyLists]
    /\ fn_ret = Null
    /\ fn_pc = "call"

\* _first_existing_optional(entry, *keys)
FirstExistingOptional ==
    /\ UNCHANGED <<windVars, mrVars, aggVars>>
    /\ fn_pc = "call"
    /\ fn_ret' = _first_existing_optional(fn_arg.entry, fn_arg.keys)
    /\ fn_pc' = "optional"
    /\ UNCHANGED fn_arg

\* _first_existing(entry, *keys)
FirstExisting ==
    /\ UNCHANGED <<windVars, mrVars, aggVars>>
    /\ fn_pc = "call"
    /\ fn_ret' = _first_existing(fn_arg.entry, fn_arg.keys)
    /\ fn_pc' = IF _first_existing(fn_arg.entry, fn_arg.keys) = KeyError
                THEN "raised" ELSE "required"
    /\ UNCHANGED fn_arg

InitExtract == WindIdle /\ MonthIdle /\ AggIdle /\ ExtractInit

NextExtract ==
    \/ FirstExistingOptional
    \/ FirstExisting

SpecExtract == InitExtract /\ [][NextExtract]_vars

(***************************************************************************)
(* The default start date and the command entry points: cli.py 36-40 and   *)
(* 176-229, wind_cli.py 26-27 and 95-121, scripts/fetch_wind_data.py       *)
(* 183-185 and 299-336.                                                    *)
(***************************************************************************)
\* meteocat.cli._default_start_date
cli_default_start_date(today) ==
    LET august_first == Date(today.year, 8, 1)
    IN IF ~DateGT(august_first, today) THEN august_first
       ELSE Date(today.year - 1, 8, 1)

\* meteocat.wind_cli._default_start_date
wind_cli_default_start_date(today) == Date(today.year, 8, 1)

\* scripts/fetch_wind_data.py
build_default_start_date(today) == Date(today.year, 8, 1)

EntryPoints == {"cli rainfall", "cli wind", "wind_cli", "fetch_wind_data"}

DefaultStart(entry, today) ==
    IF entry \in {"cli rainfall", "cli wind"} THEN cli_default_start_date(today)
    ELSE IF entry = "wind_cli" THEN wind_cli_default_start_date(today)
    ELSE build_default_start_date(today)

\* _parse_date(value, default=default) on None, "" or an ISO date.
_parse_date(value, default) ==
    IF value = Null \/ value = Str("") THEN default
    ELSE FromIsoFormat(StrChars(value.s))

MainInit ==
    /\ fn_arg \in [ entry : EntryPoints,
                    api_key : {Null, Str(""), Str("KEY")},
                    start_date : {Null, Str("2024-08-01"), Str("2025-01-01")},
                    end_date : {Null, Str("2024-08-01"), Str("2024-12-29")},
                    today : {Date(2024, 7, 28), Date(2024, 12, 29)} ]
    /\ fn_ret = [start_date |-> NoDate, end_date |-> NoDate, requests |-> <<>>]
    /\ fn_pc = "api_key"

\* Mutant of MainCheckKey: the credential is not looked at.
MainCheckKeyNoCheck ==
    /\ UNCHANGED <<windVars, mrVars, aggVars>>
    /\ fn_pc = "api_key"
    /\ fn_pc' = "dates"
    /\ UNCHANGED <<fn_arg, fn_ret>>

\* The credential check; parser.error, or return 1 in the script.
MainCheckKey ==
    /\ UNCHANGED <<windVars, mrVars, aggVars>>
    /\ fn_pc = "api_key"
    /\ fn_pc' = IF fn_arg.api_key = Null \/ fn_arg.api_key = Str("") THEN "error"
                ELSE "dates"
    /\ UNCHANGED <<fn_arg, fn_ret>>

\* The dates are resolved and compared.
MainCheckDates ==
    /\ UNCHANGED <<windVars, mrVars, aggVars>>
    /\ fn_pc = "dates"
    /\ LET start == _parse_date(fn_arg.start_date, DefaultStart(fn_arg.entry, fn_arg.today))
           end == _parse_date(fn_arg.end_date, fn_arg.today)
       IN /\ fn_ret' = [fn_ret EXCEPT !.start_date = start, !.end_date = end]
          /\ fn_pc' = IF DateGT(start, end) THEN "error" ELSE "collect"
    /\ UNCHANGED fn_arg

\* The collector asks for the station list; the request may fail.
MainListStations ==
    /\ UNCHANGED <<windVars, mrVars, aggVars>>
    /\ fn_pc = "collect"
    /\ fn_ret' = [fn_ret EXCEPT !.requests = Append(@, "list_stations")]
    /\ \E ok \in BOOLEAN : fn_pc' = IF ok THEN "fetch" ELSE "failed"
    /\ UNCHANGED fn_arg

\* One data request of the collector.
MainFetch ==
    /\ UNCHANGED <<windVars, mrVars, aggVars>>
    /\ fn_pc = "fetch"
    /\ Len(fn_ret.requests) < 1 + MaxRequests
    /\ fn_ret' = [fn_ret EXCEPT !.requests = Append(@, "data")]
    /\ UNCHANGED <<fn_arg, fn_pc>>

\* The output is written and the command ends.
MainWrite ==
    /\ UNCHANGED <<windVars, mrVars, aggVars>>
    /\ fn_pc = "fetch"
    /\ fn_pc' = "done"
    /\ UNCHANGED <<fn_arg, fn_ret>>

InitMain == WindIdle /\ MonthIdle /\ AggIdle /\ MainInit

NextMain ==
    \/ MainCheckKey
    \/ MainCheckDates
    \/ MainListStations
    \/ MainFetch
    \/ MainWrite

SpecMain == InitMain /\ [][NextMain]_vars

(***************************************************************************)
(* MeteocatClient._extract_precipitation_series applied to a payload that  *)
(* is a list of entries without "variables": client.py 153-199.            *)
(***************************************************************************)
\* entry.get(k1) or entry.get(k2) or ...: the first truthy value, else the
\* value of the last key.
RECURSIVE OrChain(_, _, _)
OrChain(entry, keys, i) ==
    IF i = Len(keys) \/ ~Falsy(Get(entry, keys[i])) THEN Get(entry, keys[i])
    ELSE OrChain(entry, keys, i + 1)

\* Lines 169-198 for one entry: the record appended, if any.
SeriesEntry(entry) ==
    IF entry.t # "map" THEN <<>>
    ELSE LET date == OrChain(entry.m, <<"data", "dia", "date">>, 1)
             value == OrChain(entry.m,
                              <<"valor", "precipitacio", "precipitacio24h", "acumulat">>, 1)
         IN IF Falsy(date) \/ value = Null THEN <<>>
            ELSE IF ~(value.t \in {"num", "str"}) \/ Thousandths(value.s) < 0 THEN <<>>
            ELSE << [date |-> SubSeq(StrChars(date.s), 1, Min(10, Len(StrChars(date.s)))),
                     value |-> Thousandths(value.s)] >>

RECURSIVE SeriesFrom(_, _)
SeriesFrom(candidates, i) ==
    IF i > Len(candidates) THEN <<>>
    ELSE SeriesEntry(candidates[i]) \o SeriesFrom(candidates, i + 1)

_extract_precipitation_series(payload) == SeriesFrom(payload, 1)

PayloadEntryChoices ==
    [ data : {Absent, Str("2024-08-01")},
      dia : {Absent, Str("2024-12-30T23:59:59")},
      valor : {Absent, Num("0"), Num("2.5"), Str("n/a")},
      acumulat : {Absent, Num("0.12")} ]

PayloadEntries == {Map(Holding(choice)) : choice \in PayloadEntryChoices} \cup {Str("n/a")}

SeriesInit ==
    /\ fn_arg \in SeqsUpTo(PayloadEntries, MaxPayload)
    /\ fn_ret = Null
    /\ fn_pc = "call"

ExtractPrecipitationSeries ==
    /\ UNCHANGED <<windVars, mrVars, aggVars>>
    /\ fn_pc = "call"
    /\ fn_ret' = _extract_precipitation_series(fn_arg)
    /\ fn_pc' = "done"
    /\ UNCHANGED fn_arg

InitSeries == WindIdle /\ MonthIdle /\ AggIdle /\ SeriesInit

NextSeries == ExtractPrecipitationSeries

SpecSeries == InitSeries /\ [][NextSeries]_vars

(***************************************************************************)
(* MeteocatClient._request_json called by list_stations: client.py 39-59   *)
(* and 104-151.  A JSON payload is [t, items]: a list holds its items, a    *)
(* dict its <<key, value>> pairs in order.  fn_arg holds max_retries,       *)
(* fn_ret the attempt number, the responses received so far, the payload    *)
(* returned and the stations list_stations returns.                         *)
(***************************************************************************)
JsonList(items) == [t |-> "list", items |-> items]
JsonDict(pairs) == [t |-> "dict", items |-> pairs]
JsonOther == [t |-> "other", items |-> <<>>]

\* [item for item in value if isinstance(item, dict)]
RECURSIVE OnlyDicts(_, _)
OnlyDicts(items, i) ==
    IF i > Len(items) THEN <<>>
    ELSE (IF items[i].t = "map" THEN <<items[i]>> ELSE <<>>) \o OnlyDicts(items, i + 1)

\* The first value of the dict that is a list (client.py 148-150), from pair i.
RECURSIVE FirstListValue(_, _)
FirstListValue(pairs, i) ==
    IF i > Len(pairs) THEN <<>>
    ELSE IF pairs[i][2].t = "list" THEN OnlyDicts(pairs[i][2].items, 1)
    ELSE FirstListValue(pairs, i + 1)

\* client.py 141-151.
_extract_list(payload, default_key) ==
    IF payload.t = "list" THEN OnlyDicts(payload.items, 1)
    ELSE IF payload.t = "dict" THEN
        IF \E i \in 1..Len(payload.items) :
               payload.items[i][1] = default_key /\ payload.items[i][2].t = "list"
        THEN LET i == CHOOSE i \in 1..Len(payload.items) : payload.items[i][1] = default_key
             IN OnlyDicts(payload.items[i][2].items, 1)
        ELSE FirstListValue(payload.items, 1)
    ELSE <<>>

StationItem == Map([codi |-> Str("X1")])

\* What response.json() gives on a successful response.
Payloads ==
    { JsonDict(<<>>),
      JsonDict(<< <<"estacions", JsonList(<<StationItem>>)>> >>),
      JsonDict(<< <<"total", JsonOther>>, <<"items", JsonList(<<StationItem>>)>> >>),
      JsonList(<<StationItem, Str("n/a")>>) }

NoPayload == [t |-> "none", items |-> <<>>]

\* The upstream responses: a success with its payload, HTTP 429, another
\* HTTP error status (raise_for_status), no response (RequestException).
Responses ==
    {[kind |-> "success", payload |-> p] : p \in Payloads}
    \cup {[kind |-> k, payload |-> NoPayload] : k \in {"429", "http_error", "network_error"}}

RequestInit ==
    /\ fn_arg \in [max_retries : 0..MaxRetries]
    /\ fn_ret = [attempt |-> 1, responses |-> <<>>, payload |-> NoPayload, stations |-> <<>>]
    /\ fn_pc = "request"

\* range(1, self.max_retries + 2) has another attempt to give.
InLoop == fn_pc = "request" /\ fn_ret.attempt <= fn_arg.max_retries + 1

\* Lines 108-120: the response is a success and its JSON is returned.
RequestSuccess ==
    /\ UNCHANGED <<windVars, mrVars, aggVars>>
    /\ InLoop
    /\ \E r \in Responses :
         /\ r.kind = "success"
         /\ fn_ret' = [fn_ret EXCEPT !.responses = Append(@, r), !.payload = r.payload]
    /\ fn_pc' = "returned"
    /\ UNCHANGED fn_arg

\* Mutant of RequestRateLimited: a 429 does not use up an attempt.
RequestRateLimitedSameAttempt ==
    /\ UNCHANGED <<windVars, mrVars, aggVars>>
    /\ InLoop
    /\ Len(fn_ret.responses) <= MaxRetries + 1
    /\ \E r \in Responses :
         /\ r.kind = "429"
         /\ fn_ret' = [fn_ret EXCEPT !.responses = Append(@, r)]
    /\ UNCHANGED <<fn_arg, fn_pc>>

\* Lines 114-118: HTTP 429; sleep, then the next attempt.
RequestRateLimited ==
    /\ UNCHANGED <<windVars, mrVars, aggVars>>
    /\ InLoop
    /\ \E r \in Responses :
         /\ r.kind = "429"
         /\ fn_ret' = [fn_ret EXCEPT !.responses = Append(@, r), !.attempt = @ + 1]
    /\ UNCHANGED <<fn_arg, fn_pc>>

\* Lines 121-138: HTTPError from raise_for_status, or another
\* RequestException; raised again on the last attempt, else sleep and the
\* next attempt.
RequestError ==
    /\ UNCHANGED <<windVars, mrVars, aggVars>>
    /\ InLoop
    /\ \E r \in Responses :
         /\ r.kind \in {"http_error", "network_error"}
         /\ IF fn_ret.attempt > fn_arg.max_retries
            THEN /\ fn_ret' = [fn_ret EXCEPT !.responses = Append(@, r)]
                 /\ fn_pc' = "raised"
            ELSE /\ fn_ret' = [fn_ret EXCEPT !.responses = Append(@, r), !.attempt = @ + 1]
                 /\ fn_pc' = fn_pc
    /\ UNCHANGED fn_arg

\* Line 139: the loop is over, return {}.
RequestExhausted ==
    /\ UNCHANGED <<windVars, mrVars, aggVars>>
    /\ fn_pc = "request"
    /\ fn_ret.attempt > fn_arg.max_retries + 1
    /\ fn_ret' = [fn_ret EXCEPT !.payload = JsonDict(<<>>)]
    /\ fn_pc' = "returned"
    /\ UNCHANGED fn_arg

\* list_stations, lines 57-59: the stations of the payload returned.
ListStations ==
    /\ UNCHANGED <<windVars, mrVars, aggVars>>
    /\ fn_pc = "returned"
    /\ fn_ret' = [fn_ret EXCEPT !.stations = _extract_list(fn_ret.payload, "estacions")]
    /\ fn_pc' = "done"
    /\ UNCHANGED fn_arg

InitRequest == WindIdle /\ MonthIdle /\ AggIdle /\ RequestInit

NextRequest ==
    \/ RequestSuccess
    \/ RequestRateLimited
    \/ RequestError
    \/ RequestExhausted
    \/ ListStations

SpecRequest == InitRequest /\ [][NextRequest]_vars

\* The call runs on while it has a step to take.
SpecRequestFair == SpecRequest /\ WF_vars(NextRequest)

(***************************************************************************)
(* MeteocatClient.fetch_daily_precipitation: client.py 61-99.  fn_arg      *)
(* holds start_date, end_date and chunk_size; fn_ret the local current,    *)
(* the [dataInici, dataFi] of the requests issued, results and the          *)
(* exception that ended the call, if any.                                   *)
(***************************************************************************)
\* datetime.date.max; date + timedelta beyond it raises OverflowError.
DateMax == Date(9999, 12, 31)

OutOfRange == Date(0, 0, 0)

\* date + timedelta(days=1)
NextDay(d) ==
    IF d = OutOfRange \/ d = DateMax THEN OutOfRange
    ELSE IF d.day < DaysInMonth(d.year, d.month) THEN Date(d.year, d.month, d.day + 1)
    ELSE IF d.month < 12 THEN Date(d.year, d.month + 1, 1)
    ELSE Date(d.year + 1, 1, 1)

\* date + timedelta(days=n), n >= 0
RECURSIVE AddDays(_, _)
AddDays(d, n) == IF n = 0 THEN d ELSE AddDays(NextDay(d), n - 1)

\* min(a, end_date)
MinDate(a, b) == IF DateGT(a, b) THEN b ELSE a

\* results.sort(key=lambda entry: entry.get("date")): a stable sort on the
\* date text.
RECURSIVE InsertByDateText(_, _)
InsertByDateText(sorted, item) ==
    IF sorted = <<>> THEN <<item>>
    ELSE IF LexLessFrom(item.date, sorted[Len(sorted)].date, 1)
         THEN Append(InsertByDateText(SubSeq(sorted, 1, Len(sorted) - 1), item),
                     sorted[Len(sorted)])
         ELSE Append(sorted, item)

RECURSIVE SortByDateText(_, _)
SortByDateText(items, i) ==
    IF i = 0 THEN <<>>
    ELSE InsertByDateText(SortByDateText(items, i - 1), items[i])

\* The payloads of /dades/diaries the model answers with.
EntryAugust == Map([data |-> Str("2024-08-01"), valor |-> Num("2.5")])
EntryDecember == Map([data |-> Str("2024-12-30"), valor |-> Num("2.5")])

ChunkPayloads == {<<>>, <<EntryAugust>>, <<EntryDecember, EntryAugust>>}

StartDates == {Date(2024, 2, 27), Date(2024, 12, 30), Date(9999, 12, 29)}

\* The ranges of at most MaxSpan + 1 days from a start date, and the same
\* ranges with start and end exchanged.
DateRanges ==
    LET forward == {<<start, AddDays(start, k)>> : start \in StartDates, k \in 0..MaxSpan}
        inRange == {r \in forward : r[2] # OutOfRange}
    IN inRange \cup {<<r[2], r[1]>> : r \in inRange}

PrecipInit ==
    /\ \E r \in DateRanges, c \in 1..MaxChunk :
         /\ fn_arg = [start_date |-> r[1], end_date |-> r[2], chunk_size |-> c]
         /\ fn_ret = [current |-> r[1], requests |-> <<>>, results |-> <<>>,
                      error |-> "none"]
    /\ fn_pc = "loop"

\* while current <= end_date
PrecipInLoop == fn_pc = "loop" /\ ~DateGT(fn_ret.current, fn_arg.end_date)

\* Line 80 before the min is taken.
ChunkLast == AddDays(fn_ret.current, fn_arg.chunk_size - 1)

\* Line 80: current + timedelta(days=chunk_size - 1) is beyond date.max.
PrecipChunkOverflow ==
    /\ UNCHANGED <<windVars, mrVars, aggVars>>
    /\ PrecipInLoop
    /\ ChunkLast = OutOfRange
    /\ fn_ret' = [fn_ret EXCEPT !.error = "OverflowError"]
    /\ fn_pc' = "raised"
    /\ UNCHANGED fn_arg

\* Lines 80-88: the request of one chunk fails; _request_json raises.
PrecipChunkFails ==
    /\ UNCHANGED <<windVars, mrVars, aggVars>>
    /\ PrecipInLoop
    /\ ChunkLast # OutOfRange
    /\ LET chunk_end == MinDate(ChunkLast, fn_arg.end_date)
       IN fn_ret' = [fn_ret EXCEPT
                        !.requests = Append(@, [dataInici |-> fn_ret.current,
                                                dataFi |-> chunk_end]),
                        !.error = "HTTPError"]
    /\ fn_pc' = "raised"
    /\ UNCHANGED fn_arg

\* Lines 80-97: one chunk is requested, its records are added and current
\* moves to the day after chunk_end, which date.max does not have.
PrecipChunk ==
    /\ UNCHANGED <<windVars, mrVars, aggVars>>
    /\ PrecipInLoop
    /\ ChunkLast # OutOfRange
    /\ \E payload \in ChunkPayloads :
         LET chunk_end == MinDate(ChunkLast, fn_arg.end_date)
             issued == Append(fn_ret.requests,
                              [dataInici |-> fn_ret.current, dataFi |-> chunk_end])
             extended == fn_ret.results \o _extract_precipitation_series(payload)
         IN IF NextDay(chunk_end) = OutOfRange
            THEN /\ fn_ret' = [fn_ret EXCEPT !.requests = issued, !.results = extended,
                                             !.error = "OverflowError"]
                 /\ fn_pc' = "raised"
            ELSE /\ fn_ret' = [fn_ret EXCEPT !.requests = issued, !.results = extended,
                                             !.current = NextDay(chunk_end)]
                 /\ fn_pc' = fn_pc
    /\ UNCHANGED fn_arg

\* Lines 98-99: the loop is over; sort and return.
PrecipReturn ==
    /\ UNCHANGED <<windVars, mrVars, aggVars>>
    /\ fn_pc = "loop"
    /\ DateGT(fn_ret.current, fn_arg.end_date)
    /\ fn_ret' = [fn_ret EXCEPT !.results = SortByDateText(@, Len(@))]
    /\ fn_pc' = "returned"
    /\ UNCHANGED fn_arg

InitPrecip == WindIdle /\ MonthIdle /\ AggIdle /\ PrecipInit

NextPrecip ==
    \/ PrecipChunkOverflow
    \/ PrecipChunkFails
    \/ PrecipChunk
    \/ PrecipReturn

SpecPrecip == InitPrecip /\ [][NextPrecip]_vars

(***************************************************************************)
(* Properties of collect_daily_wind_data.                                  *)
(***************************************************************************)
\* A raw station record holds a non-empty value under a code alias.
HasCode(raw) == \E i \in 1..Len(CodeKeys) : NotEmpty(Get(raw, CodeKeys[i][1]))

GoodStations == {i \in 1..Len(stations) : HasCode(stations[i])}

\* The months from start to end inclusive, in closed form.
MonthCount(start, end) == 12 * (end.year - start.year) + (end.month - start.month) + 1
MonthAt(start, k) ==
    LET t == (start.month - 1) + (k - 1)
    IN <<start.year + (t \div 12), (t % 12) + 1>>
ExpectedMonths(start, end) == [k \in 1..MonthCount(start, end) |-> MonthAt(start, k)]

\* The fetches one station asks for: every month by every variable.
StationCalls(i) ==
    LET months == ExpectedMonths(start_date, end_date)
        nv == Len(variable_codes)
    IN [n \in 1..(Len(months) * nv) |->
           [si |-> i,
            code |-> _first_existing_optional(stations[i], CodeKeys).s,
            year |-> months[((n - 1) \div nv) + 1][1],
            month |-> months[((n - 1) \div nv) + 1][2],
            variable |-> variable_codes[((n - 1) % nv) + 1]]]

RECURSIVE CallsFrom(_)
CallsFrom(i) ==
    IF i > Len(stations) THEN <<>>
    ELSE IF HasCode(stations[i]) THEN StationCalls(i) \o CallsFrom(i + 1)
    ELSE CallsFrom(i + 1)

ExpectedCalls == IF DateGT(start_date, end_date) THEN <<>> ELSE CallsFrom(1)

IsPrefix(a, b) == Len(a) <= Len(b) /\ \A j \in 1..Len(a) : a[j] = b[j]

InStation == pc \in {"fetch", "emit"}

RowsOf(i, d) ==
    {r \in 1..Len(all_records) : row_src[r] = i /\ all_records[r]["date"].s = d}

\* Every column assigned for a station and date is held, with the value last
\* assigned to it, by the one row of that station and date.
RowsHoldWrites ==
    \A k \in DOMAIN written :
        IF k[1] = si /\ InStation
        THEN /\ k[2] \in DOMAIN daily_records
             /\ k[3] \in DOMAIN daily_records[k[2]]
             /\ daily_records[k[2]][k[3]] = written[k]
        ELSE /\ Cardinality(RowsOf(k[1], k[2])) = 1
             /\ \A r \in RowsOf(k[1], k[2]) :
                    /\ k[3] \in DOMAIN all_records[r]
                    /\ all_records[r][k[3]] = written[k]

\* C1: for one station, the entries of one date are merged into exactly one
\* row, and assigning the column of a variable keeps the columns assigned
\* before for the other variables: each column ever assigned is in the row
\* with its last value, in the station's records and in the returned list.
C1_MergeNotReplace ==
    pc # "raised" =>
        /\ RowsHoldWrites
        /\ \A r1, r2 \in 1..Len(all_records) :
               (row_src[r1] = row_src[r2]
                /\ all_records[r1]["date"] = all_records[r2]["date"]) => r1 = r2

\* C1 witness: the returned list has a row that holds the VV10m and the
\* DV10m column, both assigned.
C1_Witness ==
    /\ pc = "done"
    /\ \E r \in 1..Len(all_records) :
           /\ {"VV10m", "DV10m"} \subseteq DOMAIN all_records[r]
           /\ <<row_src[r], all_records[r]["date"].s, "VV10m">> \in DOMAIN written
           /\ <<row_src[r], all_records[r]["date"].s, "DV10m">> \in DOMAIN written
           /\ all_records[r]["VV10m"] = Str("0")

\* C2: an entry without date is skipped and the function returns normally,
\* that is, no run ends in an exception caused by such an entry.
C2_EntryWithoutDateSkipped == ~(pc = "raised" /\ raise_cause = "entry_without_date")

\* C3: a failed fetch skips only its (station, month, variable): the
\* fetches issued are always a prefix of all the combinations of all the
\* stations with a code, and all of them once the function has returned;
\* the failure raises nothing and the rows merged before it are kept.
C3_FetchFailureIsolated ==
    /\ LET expected == ExpectedCalls
       IN /\ IsPrefix(fetch_log, expected)
          /\ pc = "done" => fetch_log = expected
    /\ last_fetch = "failed" => (pc # "raised" /\ RowsHoldWrites)

\* C3 witness: the function returned rows although a fetch failed after
\* rows were merged, the last one of the run.
C3_Witness ==
    /\ pc = "done"
    /\ last_fetch = "failed"
    /\ Len(fetch_log) >= 2
    /\ \E r \in 1..Len(all_records) : row_src[r] = fetch_log[Len(fetch_log)].si

\* C4: a station record without code is skipped alone: no fetch and no row
\* for it, no exception from it, and the stations with a code are all
\* fetched, in their order.
C4_StationWithoutCodeSkipped ==
    /\ \A j \in 1..Len(fetch_log) : fetch_log[j].si \in GoodStations
    /\ \A r \in 1..Len(row_src) : row_src[r] \in GoodStations
    /\ pc = "raised" => raise_cause \in {"entry_without_date", "month_range"}
    /\ \A j \in 1..(Len(fetch_log) - 1) : fetch_log[j].si <= fetch_log[j + 1].si
    /\ (pc = "done" /\ variable_codes # <<>>) =>
           {fetch_log[j].si : j \in 1..Len(fetch_log)} = GoodStations

\* C4 witness: the function returned rows of a station that follows a
\* station without code.
C4_Witness ==
    /\ pc = "done"
    /\ \E i \in 1..Len(stations), r \in 1..Len(all_records) :
           ~HasCode(stations[i]) /\ row_src[r] > i

\* C5: no two returned rows have the same (station_code, date).
C5_UniqueStationDate ==
    \A r1, r2 \in 1..Len(all_records) :
        (all_records[r1]["station_code"] = all_records[r2]["station_code"]
         /\ all_records[r1]["date"] = all_records[r2]["date"]) => r1 = r2

\* C6: the returned rows are one contiguous block per processed station, the
\* blocks in the order of the station list, each block ascending by date
\* string.
C6_BlocksInStationOrder ==
    /\ Len(row_src) = Len(all_records)
    /\ \A r \in 1..Len(all_records) :
           all_records[r]["station_code"] = _first_existing(stations[row_src[r]], CodeKeys)
    /\ \A r \in 1..(Len(all_records) - 1) :
           /\ row_src[r] <= row_src[r + 1]
           /\ row_src[r] = row_src[r + 1] =>
                  StrLess(all_records[r]["date"].s, all_records[r + 1]["date"].s)

\* C6 witness: two blocks are returned, the first of two rows.
C6_Witness ==
    /\ pc = "done"
    /\ Len(all_records) >= 3
    /\ row_src[1] = row_src[2]
    /\ row_src[2] < row_src[3]

(***************************************************************************)
(* Properties of month_range.                                              *)
(***************************************************************************)
\* C7: for start <= end month_range ends after yielding exactly the pairs
\* from (start.year, start.month) to (end.year, end.month), in order and
\* without gap or repeat, 12*(end.year-start.year)+(end.month-start.month)+1
\* of them, each month in 1..12, January of the next year after December;
\* for start > end it raises and yields nothing.  It never yields more pairs
\* than that count and stops only when done or raised.
C7_MonthRangeExact ==
    /\ mr_pc \in {"done", "raised"} \/ ENABLED NextMonth
    /\ DateGT(mr_start, mr_end) => (mr_pc \in {"call", "raised"} /\ mr_out = <<>>)
    /\ mr_pc = "raised" => DateGT(mr_start, mr_end)
    /\ ~DateGT(mr_start, mr_end) =>
           /\ MonthCount(mr_start, mr_end) >= 1
           /\ IsPrefix(mr_out, ExpectedMonths(mr_start, mr_end))
           /\ mr_pc = "done" => mr_out = ExpectedMonths(mr_start, mr_end)
    /\ \A k \in 1..Len(mr_out) : mr_out[k][2] \in 1..12
    /\ \A k \in 1..(Len(mr_out) - 1) :
           \/ mr_out[k + 1] = <<mr_out[k][1], mr_out[k][2] + 1>>
           \/ (mr_out[k][2] = 12 /\ mr_out[k + 1] = <<mr_out[k][1] + 1, 1>>)

\* C7 witness: the generator is exhausted after a range over a year
\* boundary whose start day is later in its month than the end day.
C7_Witness ==
    /\ mr_pc = "done"
    /\ mr_start.year < mr_end.year
    /\ mr_start.day > mr_end.day
    /\ Len(mr_out) = MonthCount(mr_start, mr_end)
    /\ \E k \in 1..(Len(mr_out) - 1) : mr_out[k][2] = 12 /\ mr_out[k + 1][2] = 1

(***************************************************************************)
(* Properties of aggregate_precipitation.  What an input entry denotes is  *)
(* read from ValidEntries, not from the normalisation of the model.        *)
(***************************************************************************)
Truth(raw) == CHOOSE e \in ValidEntries : e.raw = raw

ValidInput == {i \in 1..Len(daily_data) : \E e \in ValidEntries : e.raw = daily_data[i]}

RECURSIVE SumValues(_)
SumValues(S) ==
    IF S = {} THEN 0
    ELSE LET i == CHOOSE j \in S : TRUE
         IN Truth(daily_data[i]).value + SumValues(S \ {i})

YearsOfInput == {Truth(daily_data[i]).date.year : i \in ValidInput}

Returned(frequency) == agg_pc = "done" /\ frequency \in DOMAIN results

\* The sum of the values of the entries of a list whose label starts with
\* the four digits of a year.
RECURSIVE SumOfYear(_, _, _)
SumOfYear(entries, yearLabel, k) ==
    IF k > Len(entries) THEN 0
    ELSE (IF SubSeq(entries[k].period, 1, 4) = yearLabel THEN entries[k].value ELSE 0)
         + SumOfYear(entries, yearLabel, k + 1)

\* C8: the yearly output has exactly one entry for each calendar year with a
\* valid input entry and no other entry, and the value of the entry of a
\* year is the sum, rounded to 2 decimals, of the values of all the valid
\* input entries dated in that year, entries with the same date included.
C8_YearlyIsSumOfYear ==
    Returned("yearly") =>
        LET yearly == results["yearly"]
        IN /\ \A Y \in YearsOfInput :
                Cardinality({k \in 1..Len(yearly) : yearly[k].period = IntChars(Y)}) = 1
           /\ \A k \in 1..Len(yearly) :
                \E Y \in YearsOfInput :
                    /\ yearly[k].period = IntChars(Y)
                    /\ yearly[k].value =
                         Round2(SumValues({i \in ValidInput :
                                             Truth(daily_data[i]).date.year = Y}))

\* Two valid entries with the same date were aggregated into one yearly
\* entry holding their sum.
C8_Witness ==
    /\ Returned("yearly")
    /\ ValidInput = {1, 2}
    /\ Truth(daily_data[1]).date = Truth(daily_data[2]).date
    /\ Len(results["yearly"]) = 1
    /\ results["yearly"][1].value =
         Truth(daily_data[1]).value + Truth(daily_data[2]).value

\* C9 as stated: for every year of the yearly output, the sum of the values
\* of the monthly entries of that year equals the value of the yearly entry.
C9_MonthlySumEqualsYearly ==
    (Returned("monthly") /\ Returned("yearly")) =>
        \A k \in 1..Len(results["yearly"]) :
            SumOfYear(results["monthly"], results["yearly"][k].period, 1)
                = results["yearly"][k].value

TwoDecimals == \A i \in ValidInput : Truth(daily_data[i]).value % 10 = 0

\* C9 amended: when every valid value has at most two decimal places, for
\* every year of the yearly output the sum of the values of the monthly
\* entries of that year, rounded to 2 decimals, equals the yearly value.
C9_MonthlySumRoundedEqualsYearly ==
    (Returned("monthly") /\ Returned("yearly") /\ TwoDecimals) =>
        \A k \in 1..Len(results["yearly"]) :
            Round2(SumOfYear(results["monthly"], results["yearly"][k].period, 1))
                = results["yearly"][k].value

\* Two entries with two-decimal values in different months of one year were
\* aggregated both monthly and yearly.
C9_Witness ==
    /\ Returned("monthly") /\ Returned("yearly") /\ TwoDecimals
    /\ ValidInput = {1, 2}
    /\ Len(results["monthly"]) = 2
    /\ Len(results["yearly"]) = 1

\* ISO 8601 by the Thursday rule: the week of a date belongs to the year of
\* its Thursday and is numbered by the position of that Thursday in the year.
ThursdayOf(d) == ToOrdinal(d) - ((ToOrdinal(d) + 6) % 7) + 3

IsoYearOf(d) ==
    CHOOSE y \in (d.year - 1)..(d.year + 1) :
        DaysBeforeYear(y) < ThursdayOf(d) /\ ThursdayOf(d) <= DaysBeforeYear(y + 1)

IsoWeekOf(d) == ((ThursdayOf(d) - DaysBeforeYear(IsoYearOf(d)) - 1) \div 7) + 1

IsoLabel(d) == IntChars(IsoYearOf(d)) \o <<45, 87>> \o TwoDigits(IsoWeekOf(d))

\* C10: in the weekly output every valid entry is counted in exactly one
\* bucket, the one labelled YYYY-Www with the ISO 8601 year and week of its
\* date: each bucket carries the ISO label of some valid entry, no label
\* occurs twice, and the value of a bucket is the rounded sum of the values
\* of exactly the valid entries whose date has that ISO label.
C10_WeeklyBucketsAreIsoWeeks ==
    Returned("weekly") =>
        LET weekly == results["weekly"]
        IN /\ \A i \in ValidInput :
                Cardinality({k \in 1..Len(weekly) :
                               weekly[k].period = IsoLabel(Truth(daily_data[i]).date)}) = 1
           /\ \A k \in 1..Len(weekly) :
                /\ \E i \in ValidInput : weekly[k].period = IsoLabel(Truth(daily_data[i]).date)
                /\ weekly[k].value =
                     Round2(SumValues({i \in ValidInput :
                                         IsoLabel(Truth(daily_data[i]).date) = weekly[k].period}))

\* 2021-01-03 was summed under 2020-W53 and 2024-12-30 under 2025-W01.
C10_Witness ==
    /\ Returned("weekly")
    /\ \E i \in ValidInput : Truth(daily_data[i]).date = Date(2024, 12, 30)
    /\ \E j \in ValidInput : Truth(daily_data[j]).date = Date(2021, 1, 3)
    /\ Len(results["weekly"]) = 2
    /\ results["weekly"][1].period = <<50, 48, 50, 48, 45, 87, 53, 51>>
    /\ results["weekly"][2].period = <<50, 48, 50, 53, 45, 87, 48, 49>>

\* The input without its malformed entries.
RECURSIVE WithoutMalformed(_, _)
WithoutMalformed(data, i) ==
    IF i > Len(data) THEN <<>>
    ELSE (IF data[i] \in MalformedEntries THEN <<>> ELSE <<data[i]>>)
         \o WithoutMalformed(data, i + 1)

\* What aggregate_precipitation returns for a supported frequency on a list.
ResultOn(data, frequency) ==
    LET items == NormalizeFrom(data, 1)
    IN IF items = <<>> THEN <<>>
       ELSE Aggregated(SortNormalized(items, Len(items)), frequency)

DefaultFrequencies == <<"weekly", "monthly", "yearly">>

C12_UnsupportedFrequencyRaises ==
    (\E k \in 1..Len(frequencies) : frequencies[k] \notin Supported) =>
        /\ agg_pc # "done"
        /\ agg_pc = "raised" => results = <<>>

\* The number a sequence of decimal digits denotes.
RECURSIVE DigitsValue(_)
DigitsValue(c) ==
    IF c = <<>> THEN 0
    ELSE 10 * DigitsValue(SubSeq(c, 1, Len(c) - 1)) + (c[Len(c)] - 48)

\* The (year, sub-period) key a label YYYY, YYYY-mm or YYYY-Www stands for.
LabelKey(period) ==
    << DigitsValue(SubSeq(period, 1, 4)),
       IF Len(period) = 4 THEN 0
       ELSE DigitsValue(SubSeq(period, Len(period) - 1, Len(period))) >>

KeyBefore(a, b) == a[1] < b[1] \/ (a[1] = b[1] /\ a[2] < b[2])

\* C13: the result has exactly one list for each requested frequency, and
\* each list is strictly ascending by the (year, sub-period) key of its
\* labels, so that no period occurs twice, whatever the order of the input.
C13_OutputStrictlyAscending ==
    agg_pc = "done" =>
        /\ DOMAIN results = {frequencies[k] : k \in 1..Len(frequencies)}
        /\ \A f \in DOMAIN results :
             \A k \in 1..(Len(results[f]) - 1) :
                 KeyBefore(LabelKey(results[f][k].period),
                           LabelKey(results[f][k + 1].period))

\* Two entries given latest first came out as two periods, earliest first.
C13_Witness ==
    /\ agg_pc = "done"
    /\ ValidInput = {1, 2}
    /\ DateGT(Truth(daily_data[1]).date, Truth(daily_data[2]).date)
    /\ \A f \in Supported :
         /\ f \in DOMAIN results
         /\ Len(results[f]) = 2
         /\ KeyBefore(LabelKey(results[f][1].period), LabelKey(results[f][2].period))

(***************************************************************************)
(* Properties of _normalize_station.                                       *)
(***************************************************************************)
\* Neither None nor the empty string; the number 0 and False are values.
IsValue(v) == v # Null /\ v # Str("")

\* An alias, flat or parent.child, holds a value.
Holds(raw, alias) ==
    IF Len(alias) = 2
    THEN Get(raw, alias[1]).t = "map" /\ IsValue(Get(Get(raw, alias[1]).m, alias[2]))
    ELSE IsValue(Get(raw, alias[1]))

ValueUnder(raw, alias) ==
    IF Len(alias) = 2 THEN Get(Get(raw, alias[1]).m, alias[2]) ELSE Get(raw, alias[1])

\* The first alias of a priority list that holds a value; 0 when none does.
FirstHolding(raw, aliases) ==
    IF \E i \in 1..Len(aliases) : Holds(raw, aliases[i])
    THEN CHOOSE i \in 1..Len(aliases) :
            Holds(raw, aliases[i]) /\ \A j \in 1..(i - 1) : ~Holds(raw, aliases[j])
    ELSE 0

CodePriority == << <<"codi">>, <<"codiEstacio">>, <<"codiXEMA">>, <<"code">>, <<"id">> >>
LatitudePriority == << <<"latitud">>, <<"lat">>, <<"latitude">>,
                       <<"coordenades", "latitud">>, <<"coordinates", "latitude">> >>
LongitudePriority == << <<"longitud">>, <<"lon">>, <<"lng">>, <<"longitude">>,
                        <<"coordenades", "longitud">>, <<"coordinates", "longitude">> >>

\* The float a text denotes, None when it denotes none.
FloatOf(x) ==
    IF x = "41.5" \/ x = "2.1" THEN [t |-> "float", s |-> x, m |-> <<>>]
    ELSE IF x = "0" THEN [t |-> "float", s |-> "0.0", m |-> <<>>]
    ELSE Null

\* The value of a geo field: that of the first alias holding a value, None
\* when it is not a number, whatever later aliases hold.
GeoField(raw, aliases) ==
    IF FirstHolding(raw, aliases) = 0 THEN Null
    ELSE FloatOf(ValueUnder(raw, aliases[FirstHolding(raw, aliases)]).s)

\* C14: _normalize_station takes each field from the first alias of its
\* priority list that holds a non-empty value and from no other: the code
\* from codi, codiEstacio, codiXEMA, code, id (a missing-field error when
\* none holds one); latitude and longitude from the flat aliases before the
\* nested coordenades / coordinates paths, as a float, and as None when the
\* first holding alias is not numeric even if a later alias is.
C14_FirstAliasWins ==
    fn_pc \in {"done", "raised"} =>
        IF FirstHolding(fn_arg, CodePriority) = 0
        THEN fn_pc = "raised" /\ fn_ret = KeyError
        ELSE /\ fn_pc = "done"
             /\ fn_ret.code =
                  Str(ValueUnder(fn_arg, CodePriority[FirstHolding(fn_arg, CodePriority)]).s)
             /\ fn_ret.latitude = GeoField(fn_arg, LatitudePriority)
             /\ fn_ret.longitude = GeoField(fn_arg, LongitudePriority)

\* A record with lat "n/a" and numeric nested coordinates gave latitude None
\* and longitude 2.1, with the code taken from codiXEMA.
C14_Witness ==
    /\ fn_pc = "done"
    /\ DOMAIN fn_arg = {"codiXEMA", "lat", "coordenades"}
    /\ fn_arg.lat = Str("n/a")
    /\ fn_arg.coordenades.t = "map"
    /\ fn_ret.code = Str("X1")
    /\ fn_ret.latitude = Null
    /\ fn_ret.longitude = [t |-> "float", s |-> "2.1", m |-> <<>>]

(***************************************************************************)
(* Properties of the field extractor.                                      *)
(***************************************************************************)
\* The text of the first candidate that holds a value; None when none does.
FirstValueText(entry, keys) ==
    IF FirstHolding(entry, keys) = 0 THEN Null
    ELSE [t |-> "str", s |-> ValueUnder(entry, keys[FirstHolding(entry, keys)]).s, m |-> <<>>]

\* C15: both variants of the extractor return, as a string, the value of the
\* first candidate in list order that is neither None nor "", a parent.child
\* candidate counting only when parent is a mapping with such a child; 0 and
\* False are returned; when no candidate matches the optional variant returns
\* None and the required variant raises KeyError.
C15_FirstNonEmptyCandidate ==
    /\ fn_pc = "optional" => fn_ret = FirstValueText(fn_arg.entry, fn_arg.keys)
    /\ fn_pc = "required" =>
         /\ FirstHolding(fn_arg.entry, fn_arg.keys) # 0
         /\ fn_ret = FirstValueText(fn_arg.entry, fn_arg.keys)
    /\ fn_pc = "raised" =>
         /\ FirstHolding(fn_arg.entry, fn_arg.keys) = 0
         /\ fn_ret = KeyError

\* The number 0 under the first candidate was returned as "0" although a
\* later candidate holds a text.
C15_Witness ==
    /\ fn_pc = "required"
    /\ fn_arg.keys = << <<"a">>, <<"b">> >>
    /\ Get(fn_arg.entry, "a") = Num("0")
    /\ Get(fn_arg.entry, "b") = Str("w")
    /\ fn_ret = Str("0")

(***************************************************************************)
(* Properties of the command entry points.                                 *)
(***************************************************************************)
NoCredential == fn_arg.api_key = Null \/ fn_arg.api_key = Str("")

\* C16: in every entry point, a missing credential or a start date after the
\* end date ends the run with the error exit and no network request: a
\* request is only ever issued with a credential and start <= end, a run
\* without credential never passes the credential check, a run with
\* start > end never passes the date check, and no run stops before its end.
C16_NoRequestOnConfigurationError ==
    /\ fn_ret.requests # <<>> =>
         ~NoCredential /\ ~DateGT(fn_ret.start_date, fn_ret.end_date)
    /\ NoCredential => fn_pc \in {"api_key", "error"} /\ fn_ret.requests = <<>>
    /\ DateGT(fn_ret.start_date, fn_ret.end_date) =>
         fn_pc = "error" /\ fn_ret.requests = <<>>
    /\ fn_pc \in {"error", "failed", "done"} \/ ENABLED NextMain

\* A run with a credential and an explicit start after the explicit end
\* stopped at the date check.
C16_Witness ==
    /\ fn_pc = "error"
    /\ fn_arg.api_key = Str("KEY")
    /\ fn_arg.start_date = Str("2025-01-01")
    /\ fn_arg.end_date = Str("2024-12-29")
    /\ fn_ret.start_date = Date(2025, 1, 1)
    /\ fn_ret.end_date = Date(2024, 12, 29)
    /\ fn_ret.requests = <<>>

\* The most recent August 1st on or before a day.
LastAugustFirst(today) ==
    LET y == CHOOSE q \in {today.year - 1, today.year} :
                 /\ ~DateGT(Date(q, 8, 1), today)
                 /\ DateGT(Date(q + 1, 8, 1), today)
    IN Date(y, 8, 1)

\* C17: when no start date is given, the start date every entry point uses
\* is the most recent August 1st on or before today, hence never after the
\* default end date, today.
C17_DefaultStartIsLastAugustFirst ==
    (fn_arg.start_date = Null /\ fn_ret.start_date # NoDate) =>
        /\ fn_ret.start_date = LastAugustFirst(fn_arg.today)
        /\ ~DateGT(fn_ret.start_date, fn_arg.today)

(***************************************************************************)
(* aggregate_precipitation and the order of its input.                     *)
(***************************************************************************)
Reorderings(n) == {p \in [1..n -> 1..n] : \A i, j \in 1..n : p[i] = p[j] => i = j}

Permuted(data, p) == [i \in 1..Len(data) |-> data[p[i]]]

\* C18: the weekly, monthly and yearly outputs (periods, values, order) are
\* the same for every reordering of the list of daily entries.
C18_PermutationInvariant ==
    agg_pc = "done" =>
        \A p \in Reorderings(Len(daily_data)) :
            \A f \in DOMAIN results :
                ResultOn(Permuted(daily_data, p), f) = results[f]

(***************************************************************************)
(* Properties of the collector run against MeteocatClient.                 *)
(***************************************************************************)
\* C19: run against MeteocatClient, with an upstream that would answer every
\* request with dated entries, the collector returns at least one row for
\* every station with a code when at least one variable is requested and
\* the range of months is not empty.
C19_PackagedFetchYieldsRows ==
    (pc = "done" /\ variable_codes # <<>> /\ ~DateGT(start_date, end_date)) =>
        \A i \in GoodStations : \E r \in 1..Len(all_records) : row_src[r] = i

(***************************************************************************)
(* Properties of _extract_precipitation_series.                            *)
(***************************************************************************)
\* A mapping entry with a date under data, dia or date and a number, zero
\* included, under valor, precipitacio, precipitacio24h or acumulat.
DatedNumeric(entry) ==
    /\ entry.t = "map"
    /\ \E k \in {"data", "dia", "date"} : IsValue(Get(entry.m, k))
    /\ \E k \in {"valor", "precipitacio", "precipitacio24h", "acumulat"} :
           Get(entry.m, k).t = "num"

\* C20: _extract_precipitation_series emits exactly one record for every
\* mapping entry of the payload with a date and a numeric value, a value of
\* zero included.
C20_ZeroValuesEmitted ==
    fn_pc = "done" =>
        Len(fn_ret) = Cardinality({i \in 1..Len(fn_arg) : DatedNumeric(fn_arg[i])})

(***************************************************************************)
(* Properties of MeteocatClient._request_json.                             *)
(***************************************************************************)
\* The call is under way or over.
RequestCalled == fn_pc \in {"request", "returned", "raised", "done"}

RequestErrors == {"http_error", "network_error"}

\* The number of requests issued: one per response received.
RequestsIssued == Len(fn_ret.responses)

RequestBounded == RequestsIssued <= fn_arg.max_retries + 1

\* A successful response is the last one received, and its payload is
\* what the call returns.
FirstSuccessReturned ==
    \A i \in 1..RequestsIssued :
        fn_ret.responses[i].kind = "success" =>
            /\ i = RequestsIssued
            /\ fn_pc \in {"returned", "done"}
            /\ fn_ret.payload = fn_ret.responses[i].payload

LastErrorRaised ==
    (/\ RequestsIssued = fn_arg.max_retries + 1
     /\ fn_ret.responses[RequestsIssued].kind \in RequestErrors)
        => fn_pc = "raised"

\* C21: whatever the upstream answers and for every max_retries >= 0,
\* _request_json issues at most max_retries + 1 requests and terminates,
\* by returning or by raising; the first successful response ends the call,
\* which returns its payload and issues no further request; an HTTP or
\* network error on attempt max_retries + 1 is raised.
C21_BoundedRetries ==
    /\ [](RequestCalled => RequestBounded /\ FirstSuccessReturned /\ LastErrorRaised)
    /\ <>(fn_pc \in {"done", "raised"})

\* A success on the last attempt, after a rate limit and an error.
C21_Witness ==
    /\ fn_pc = "returned"
    /\ fn_arg.max_retries = 2
    /\ RequestsIssued = 3
    /\ fn_ret.responses[1].kind = "429"
    /\ fn_ret.responses[2].kind \in RequestErrors
    /\ fn_ret.responses[3].kind = "success"
    /\ fn_ret.payload = fn_ret.responses[3].payload

\* Every attempt of the call was answered with HTTP 429.
AllRateLimited ==
    /\ RequestsIssued = fn_arg.max_retries + 1
    /\ \A i \in 1..RequestsIssued : fn_ret.responses[i].kind = "429"

\* C22: when every one of the max_retries + 1 attempts is answered with
\* HTTP 429, the call raises, as for exhausted HTTP and network errors; it
\* does not return a payload, which list_stations would take for a
\* successful response without stations.
C22_RateLimitExhaustedRaises ==
    (RequestCalled /\ AllRateLimited) => fn_pc \notin {"returned", "done"}

(***************************************************************************)
(* Properties of MeteocatClient.fetch_daily_precipitation.                 *)
(***************************************************************************)
PrecipCalled == fn_pc \in {"loop", "returned", "raised"}

\* The days of a request, both ends included.
DaysOf(request) == ToOrdinal(request.dataFi) - ToOrdinal(request.dataInici) + 1

\* The requests issued so far start at start_date, each spans 1 to
\* chunk_size days and starts on the day after the one before it ends.
ChunksInOrder ==
    LET requests == fn_ret.requests
    IN /\ requests # <<>> => requests[1].dataInici = fn_arg.start_date
       /\ \A i \in 1..Len(requests) :
            /\ DaysOf(requests[i]) >= 1
            /\ DaysOf(requests[i]) <= fn_arg.chunk_size
            /\ ~DateGT(requests[i].dataFi, fn_arg.end_date)
       /\ \A i \in 1..(Len(requests) - 1) :
            ToOrdinal(requests[i + 1].dataInici) = ToOrdinal(requests[i].dataFi) + 1

\* The requests reach end_date, or there is none when start_date > end_date.
ChunksCover ==
    IF DateGT(fn_arg.start_date, fn_arg.end_date) THEN fn_ret.requests = <<>>
    ELSE /\ fn_ret.requests # <<>>
         /\ fn_ret.requests[Len(fn_ret.requests)].dataFi = fn_arg.end_date

ResultsSorted ==
    \A i \in 1..(Len(fn_ret.results) - 1) :
        ~LexLessFrom(fn_ret.results[i + 1].date, fn_ret.results[i].date, 1)

\* C23: for every start_date <= end_date and chunk_size >= 1 whose requests
\* are all answered, fetch_daily_precipitation ends by returning; its
\* requests were issued in ascending order, contiguous, without overlap,
\* each of at most chunk_size days, and cover start_date to end_date; the
\* records returned are sorted by date; for start_date > end_date it returns
\* without a request.
C23_ChunksCoverRange ==
    PrecipCalled =>
        /\ ChunksInOrder
        /\ (fn_pc # "loop" /\ fn_ret.error # "HTTPError") =>
               (fn_pc = "returned" /\ ChunksCover /\ ResultsSorted)

\* The same within the dates the call can step over: the day after
\* end_date and the day current + chunk_size - 1 exist.
PrecipWithinCalendar ==
    /\ fn_arg.end_date # DateMax
    /\ AddDays(MinDate(fn_arg.start_date, fn_arg.end_date), fn_arg.chunk_size) # OutOfRange
    /\ AddDays(fn_arg.end_date, fn_arg.chunk_size - 1) # OutOfRange

ChunksCoverWithinCalendar ==
    (PrecipCalled /\ PrecipWithinCalendar) =>
        /\ ChunksInOrder
        /\ (fn_pc # "loop" /\ fn_ret.error # "HTTPError") =>
               (fn_pc = "returned" /\ ChunksCover /\ ResultsSorted)

====
